---- MODULE Spec2Model ----
(***************************************************************************)
(* Ad lifecycle and scheduling subsystem of the e-book reader:             *)
(*   src/src/services/adService.ts   (adService: the eight operations)     *)
(*   src/src/components/Navbar.tsx   (App: initAds, handleVisibilityChange,*)
(*                                    RouteTracker)                        *)
(*                                                                         *)
(* JavaScript runs one task to completion at a time.  An async function    *)
(* runs synchronously up to its first await on something that is not yet   *)
(* settled; awaits on settled promises continue in microtasks of the same  *)
(* task.  Each action below is therefore one task: a public call, the      *)
(* settling of one plugin call, one timer callback or one plugin event,    *)
(* together with every continuation that runs before the next task.        *)
(* What is suspended between tasks is kept in `pending`: one item per      *)
(* plugin call in flight, per armed timer and per plugin event on its way, *)
(* each with the stack `k` of frames that continue when it settles.        *)
(***************************************************************************)
EXTENDS Integers, Sequences, FiniteSets, Bags, TLC

VARIABLES
    native,                \* Capacitor.isNativePlatform()
    contentOpenCount,      \* adService.ts:26
    isInterstitialLoaded,  \* adService.ts:28
    isAppOpenAdLoaded,     \* adService.ts:29
    loadedListeners,       \* observers registered for InterstitialAdPluginEvents.Loaded
    dismissedListeners,    \* observers registered for InterstitialAdPluginEvents.Dismissed
    pending,               \* bag of plugin calls in flight, armed timers, events on their way
    slot,                  \* the plugin's prepared full-screen ad: "none", "inter", "appopen"
    showSplash,            \* Navbar.tsx:122
    adsInitialized,        \* Navbar.tsx:127
    lastActiveTime,        \* Navbar.tsx:128
    visibility,            \* document.visibilityState
    now,                   \* Date.now() at the latest visibility event
    backgroundedAt,        \* history: time of the most recent background transition
    adsAtBackground,       \* history: adsInitialized when that transition happened
    calls,                 \* history: number of host-initiated steps taken
    failures,              \* history: number of plugin calls that rejected
    ev                     \* history: what the last task did (see Ev0)

vars == <<native, contentOpenCount, isInterstitialLoaded, isAppOpenAdLoaded,
          loadedListeners, dismissedListeners, pending, slot, showSplash,
          adsInitialized, lastActiveTime, visibility, now, backgroundedAt,
          adsAtBackground, calls, failures, ev>>

(***************************************************************************)
(* Program constants.                                                      *)
(***************************************************************************)
INTERSTITIAL_FREQUENCY == 2
SETTLE_DELAY == 1000
REFILL_DELAY == 1000
BACKOFF_DELAY == 2000
INIT_RETRY_DELAY == 3000
FOREGROUND_THRESHOLD == 30000

(***************************************************************************)
(* Bounds of the model.                                                    *)
(***************************************************************************)
MaxCalls == 3          \* direct calls of the exported API (Spec)
MaxPending == 1        \* a direct call is made while fewer items than this are pending
MaxFailures == 2       \* plugin calls that reject (Spec)
MaxHostSteps == 3      \* splash, navigation and visibility events (SpecHost)
MaxHostFailures == 1   \* plugin calls that reject (SpecHost)
MaxTime == 71000       \* the clock stops here (SpecHost)
MaxOpens == 4          \* content opens (SpecOpens)
MaxOverlapCalls == 2   \* calls made without waiting for earlier ones (SpecOverlap)

(***************************************************************************)
(* The observation of one task.  Every action starts from Ev0(op) and the  *)
(* operations count into it.                                               *)
(***************************************************************************)
Ev0(op) ==
    [op        |-> op,      \* the task
     preIL     |-> FALSE,   \* isInterstitialLoaded when the task started
     preCount  |-> 0,       \* contentOpenCount when the task started
     preAL     |-> FALSE,   \* isAppOpenAdLoaded when the task started
     preLL     |-> 0,       \* loadedListeners when the task started
     preDL     |-> 0,       \* dismissedListeners when the task started
     preAds    |-> FALSE,   \* adsInitialized when the task started
     preLast   |-> 0,       \* lastActiveTime when the task started
     preLoadsI |-> 0,       \* interstitial load requests in flight when the task started
     doneLoadsI |-> 0,      \* ... of those, settled by this task
     trail     |-> <<>>,    \* in order: plugin calls, observers added, awaits of initialize
     requests  |-> <<>>,    \* units of the load requests initialize has awaited since
                            \* the last host-initiated step
     pluginCalls |-> 0,     \* AdMob.* calls issued
     loadsI    |-> 0,       \* AdMob.prepareInterstitial with the interstitial unit
     loadsA    |-> 0,       \* AdMob.prepareInterstitial with the app-open unit
     timers    |-> 0,       \* setTimeout calls
     timersI   |-> 0,       \* setTimeout calls whose callback is prepareInterstitial
     timersA   |-> 0,       \* setTimeout calls whose callback is prepareAppOpenAd
     prepI     |-> 0,       \* invocations of adService.prepareInterstitial
     prepIUnl  |-> 0,       \* ... of those, made while isInterstitialLoaded was false
     prepA     |-> 0,       \* invocations of adService.prepareAppOpenAd
     showI     |-> 0,       \* invocations of adService.showInterstitial
     showA     |-> 0,       \* invocations of adService.showAppOpenAd
     showIRes  |-> "none",  \* a showInterstitial promise settled: "ok", "fail"
     showIVia  |-> "none",  \* who awaited it: "track", "caller"
     showARes  |-> "none",  \* a showAppOpenAd promise settled: "ok", "fail"
     dispI     |-> 0,       \* AdMob.showInterstitial calls issued by showInterstitial
     dispIUnl  |-> 0,       \* ... of those, issued while isInterstitialLoaded was false
     dispA     |-> 0,       \* AdMob.showInterstitial calls issued by showAppOpenAd
     dispAUnl  |-> 0,       \* ... of those, issued while isAppOpenAdLoaded was false
     settled   |-> "none",  \* the settle delay of a show ran out: "inter", "appopen"
     prepOk    |-> "none",  \* a prepare that issued a load resolved: "inter", "appopen"
     prepOkLoaded |-> FALSE,\* ... the flag of its surface at that moment
     prepOkSite |-> "none", \* ... the frame that received the resolution
     rejected  |-> "none",  \* the plugin call that rejected in this task
     shown     |-> "none",  \* the unit of the ad a display call put on the screen
     shownBy   |-> "none",  \* ... the frame that awaited that display call
     caught    |-> "none",  \* the catch frame that received a rejection
     prepFail  |-> "none",  \* a prepare promise rejected: "inter", "appopen"
     prepSite  |-> "none",  \* ... the frame that received that rejection
     res       |-> "none",  \* the promise handed to the outermost caller: "ok", "fail"
     resOf     |-> "none",  \* ... the operation it belongs to
     uncaught  |-> 0]       \* rejections no handler received

Item(t, api, unit, delay, k) ==
    [t |-> t, api |-> api, unit |-> unit, delay |-> delay, early |-> FALSE, k |-> k]

One(x) == SetToBag({x})

\* the load requests for unit that are in flight in the bag p
LoadsInFlight(p, unit) ==
    BagCardinality([c \in {d \in BagToSet(p) : d.t = "call"
                                               /\ d.api = "prepareInterstitial"
                                               /\ d.unit = unit}
                    |-> CopiesIn(c, p)])

\* the promise whose continuation is k is awaited by initialize (adService.ts:64-65)
AwaitedByInitialize(k) ==
    \E i \in 1..Len(k) :
        k[i] \in {"initialize.prepareInterstitial", "initialize.prepareAppOpenAd"}

\* x is appended to the trail of the observation
Note(m, x) == [m EXCEPT !.ev.trail = Append(@, x)]

\* AdMob.<api>(...) is called; the promise settles in a later task.
PluginCall(m, api, unit, k) ==
    [m EXCEPT !.pending = @ (+) One(Item("call", api, unit, 0, k)),
              !.ev.trail = Append(@, <<"AdMob", api, unit>>),
              !.ev.requests = IF api = "prepareInterstitial" /\ AwaitedByInitialize(k)
                              THEN Append(@, unit) ELSE @,
              !.ev.pluginCalls = @ + 1,
              !.ev.loadsI = @ + (IF api = "prepareInterstitial" /\ unit = "inter" THEN 1 ELSE 0),
              !.ev.loadsA = @ + (IF api = "prepareInterstitial" /\ unit = "appopen" THEN 1 ELSE 0)]

\* setTimeout(callback, delay); the callback is the frame stack k.
SetTimeout(m, delay, k) ==
    [m EXCEPT !.pending = @ (+) One(Item("timer", "setTimeout", "none", delay, k)),
              !.ev.timers = @ + 1,
              !.ev.timersI = @ + (IF k = <<"timer.prepareInterstitial">> THEN 1 ELSE 0),
              !.ev.timersA = @ + (IF k = <<"timer.prepareAppOpenAd">> THEN 1 ELSE 0)]


(***************************************************************************)
(* The machine record m holds the variables a task may change; the         *)
(* operations below take it and return it changed.  k is the caller's      *)
(* continuation: the frames that run, innermost first, when the promise    *)
(* the operation returns settles.                                          *)
(***************************************************************************)
RECURSIVE Resume(_, _, _)

\* mutant: the loaded flag is not consulted
prepareInterstitialGuard_NoFlag(m) == native

\* mutant: a load in flight counts as loaded
prepareInterstitialGuard_Single(m) ==
    native /\ ~m.isInterstitialLoaded /\ LoadsInFlight(m.pending, "inter") = 0

\* adService.ts:118, the guard of prepareInterstitial
prepareInterstitialGuard(m) == native /\ ~m.isInterstitialLoaded

\* mutant: the platform is not consulted
prepareAppOpenAdGuard_NoGate(m) == ~m.isAppOpenAdLoaded

\* adService.ts:200, the guard of prepareAppOpenAd
prepareAppOpenAdGuard(m) == native /\ ~m.isAppOpenAdLoaded

\* mutant: a threshold instead of a period
FrequencyReached_Threshold(count) == count >= INTERSTITIAL_FREQUENCY

\* adService.ts:181, the frequency test of trackContentOpen
FrequencyReached(count) == count % INTERSTITIAL_FREQUENCY = 0

\* mutant: "at least 30 seconds", as the comment of line 213 words it
LongEnoughInBackground_AtLeast(t, last) == t - last >= FOREGROUND_THRESHOLD

\* Navbar.tsx:214, the background-time test of handleVisibilityChange
LongEnoughInBackground(t, last) == t - last > FOREGROUND_THRESHOLD

\* adService.ts:117-138
prepareInterstitial(m, k) ==
    LET m1 == [m EXCEPT !.ev.prepI = @ + 1,
                        !.ev.prepIUnl = @ + (IF m.isInterstitialLoaded THEN 0 ELSE 1)]
    IN  IF prepareInterstitialGuard(m1)
        THEN PluginCall(m1, "prepareInterstitial", "inter", <<"prepareInterstitial.load">> \o k)
        ELSE Resume(m1, k, TRUE)

\* adService.ts:199-223
prepareAppOpenAd(m, k) ==
    LET m1 == [m EXCEPT !.ev.prepA = @ + 1]
    IN  IF prepareAppOpenAdGuard(m1)
        THEN PluginCall(m1, "prepareInterstitial", "appopen", <<"prepareAppOpenAd.load">> \o k)
        ELSE Resume(m1, k, TRUE)

\* adService.ts:150-151, the display call of showInterstitial
displayInterstitial(m, k) ==
    PluginCall([m EXCEPT !.ev.dispI = @ + 1,
                         !.ev.dispIUnl = @ + (IF m.isInterstitialLoaded THEN 0 ELSE 1)],
               "showInterstitial", "none", <<"showInterstitial.display">> \o k)

\* adService.ts:235-237, the display call of showAppOpenAd
displayAppOpenAd(m, k) ==
    PluginCall([m EXCEPT !.ev.dispA = @ + 1,
                         !.ev.dispAUnl = @ + (IF m.isAppOpenAdLoaded THEN 0 ELSE 1)],
               "showInterstitial", "none", <<"showAppOpenAd.display">> \o k)

\* who receives the promise of a showInterstitial whose continuation is k
ShowVia(k) ==
    IF k # <<>> /\ Head(k) = "trackContentOpen.show" THEN "track" ELSE "caller"

\* adService.ts:140-174, up to the first await
showInterstitial(m, k) ==
    LET m1 == [m EXCEPT !.ev.showI = @ + 1]
    IN  IF native
        THEN IF ~m1.isInterstitialLoaded
             THEN prepareInterstitial(m1, <<"showInterstitial.prepare">> \o k)
             ELSE displayInterstitial(m1, k)
        ELSE Resume([m1 EXCEPT !.ev.showIRes = "ok", !.ev.showIVia = ShowVia(k)], k, TRUE)

\* adService.ts:152-160, after the display call resolved
showInterstitialShown(m, k) ==
    LET m1 == [m EXCEPT !.isInterstitialLoaded = FALSE,
                        !.ev.showIRes = "ok", !.ev.showIVia = ShowVia(k)]
    IN  Resume(SetTimeout(m1, REFILL_DELAY, <<"timer.prepareInterstitial">>), k, TRUE)

\* mutant: the catch block schedules no prepare
showInterstitialCatch_NoRetry(m, k) ==
    Resume([m EXCEPT !.isInterstitialLoaded = FALSE,
                     !.ev.showIRes = "fail", !.ev.showIVia = ShowVia(k)], k, FALSE)

\* adService.ts:161-171, the catch block of showInterstitial
showInterstitialCatch(m, k) ==
    LET m1 == [m EXCEPT !.isInterstitialLoaded = FALSE,
                        !.ev.showIRes = "fail", !.ev.showIVia = ShowVia(k)]
    IN  Resume(SetTimeout(m1, BACKOFF_DELAY, <<"timer.prepareInterstitial">>), k, FALSE)

\* adService.ts:225-260, up to the first await
showAppOpenAd(m, k) ==
    LET m1 == [m EXCEPT !.ev.showA = @ + 1]
    IN  IF native
        THEN IF ~m1.isAppOpenAdLoaded
             THEN prepareAppOpenAd(m1, <<"showAppOpenAd.prepare">> \o k)
             ELSE displayAppOpenAd(m1, k)
        ELSE Resume([m1 EXCEPT !.ev.showARes = "ok"], k, TRUE)

\* adService.ts:238-246
showAppOpenAdShown(m, k) ==
    Resume(SetTimeout([m EXCEPT !.isAppOpenAdLoaded = FALSE, !.ev.showARes = "ok"],
                      REFILL_DELAY, <<"timer.prepareAppOpenAd">>), k, TRUE)

\* adService.ts:247-257
showAppOpenAdCatch(m, k) ==
    Resume(SetTimeout([m EXCEPT !.isAppOpenAdLoaded = FALSE, !.ev.showARes = "fail"],
                      BACKOFF_DELAY, <<"timer.prepareAppOpenAd">>), k, FALSE)

\* mutant: the counter is behind the platform check, like the other operations
trackContentOpen_Gated(m, k) ==
    LET m1 == [m EXCEPT !.contentOpenCount = @ + 1]
    IN  IF ~native THEN Resume(m, k, TRUE)
        ELSE IF m1.contentOpenCount % INTERSTITIAL_FREQUENCY = 0
        THEN showInterstitial(m1, <<"trackContentOpen.show">> \o k)
        ELSE IF ~m1.isInterstitialLoaded
             THEN Resume(prepareInterstitial(m1, <<"catch.track">>), k, TRUE)
             ELSE Resume(m1, k, TRUE)

\* mutant: the counter starts over when the frequency is reached
trackContentOpen_Reset(m, k) ==
    LET m1 == [m EXCEPT !.contentOpenCount = @ + 1]
    IN  IF FrequencyReached(m1.contentOpenCount)
        THEN showInterstitial([m1 EXCEPT !.contentOpenCount = 0],
                              <<"trackContentOpen.show">> \o k)
        ELSE IF ~m1.isInterstitialLoaded
             THEN Resume(prepareInterstitial(m1, <<"catch.track">>), k, TRUE)
             ELSE Resume(m1, k, TRUE)

\* mutant: the opportunistic prepare is awaited
trackContentOpen_Awaits(m, k) ==
    LET m1 == [m EXCEPT !.contentOpenCount = @ + 1]
    IN  IF FrequencyReached(m1.contentOpenCount)
        THEN showInterstitial(m1, <<"trackContentOpen.show">> \o k)
        ELSE IF ~m1.isInterstitialLoaded
             THEN prepareInterstitial(m1, k)
             ELSE Resume(m1, k, TRUE)

\* adService.ts:176-197
trackContentOpen(m, k) ==
    LET m1 == [m EXCEPT !.contentOpenCount = @ + 1]
    IN  IF FrequencyReached(m1.contentOpenCount)
        THEN showInterstitial(m1, <<"trackContentOpen.show">> \o k)
        ELSE IF ~m1.isInterstitialLoaded
             THEN Resume(prepareInterstitial(m1, <<"catch.track">>), k, TRUE)
             ELSE Resume(m1, k, TRUE)

\* mutant: the catch block passes the rejection on
trackContentOpenCatch_Rethrow(m, k) ==
    Resume(SetTimeout(m, BACKOFF_DELAY, <<"timer.prepareInterstitial">>), k, FALSE)

\* adService.ts:185-191, the catch block of trackContentOpen
trackContentOpenCatch(m, k) ==
    Resume(SetTimeout(m, BACKOFF_DELAY, <<"timer.prepareInterstitial">>), k, TRUE)

\* adService.ts:43-75, up to the first await
initialize(m, k) ==
    IF native
    THEN PluginCall(m, "initialize", "none", <<"initialize.sdk">> \o k)
    ELSE Resume(m, k, TRUE)

\* mutant: the observers are registered by the first call only
initializeListeners_Once(m, k) ==
    LET m1 == Note(Note(m, <<"addListener", "Loaded">>), <<"addListener", "Dismissed">>)
    IN  prepareInterstitial([m1 EXCEPT !.loadedListeners = IF @ = 0 THEN 1 ELSE @,
                                       !.dismissedListeners = IF @ = 0 THEN 1 ELSE @],
                            <<"initialize.prepareInterstitial">> \o k)

\* mutant: the interstitial is not preloaded
initializeListeners_NoInterstitial(m, k) ==
    LET m1 == Note(Note(m, <<"addListener", "Loaded">>), <<"addListener", "Dismissed">>)
    IN  prepareAppOpenAd([m1 EXCEPT !.loadedListeners = @ + 1,
                                    !.dismissedListeners = @ + 1],
                         <<"initialize.prepareAppOpenAd">> \o k)

\* adService.ts:51-64, after AdMob.initialize resolved
initializeListeners(m, k) ==
    LET m1 == Note(Note(m, <<"addListener", "Loaded">>), <<"addListener", "Dismissed">>)
    IN  prepareInterstitial([m1 EXCEPT !.loadedListeners = @ + 1,
                                       !.dismissedListeners = @ + 1],
                            <<"initialize.prepareInterstitial">> \o k)

\* mutant: the catch block removes the observers of this call
initializeCatch_Unregister(m, k) ==
    Resume([m EXCEPT !.loadedListeners = IF @ > 0 THEN @ - 1 ELSE 0,
                     !.dismissedListeners = IF @ > 0 THEN @ - 1 ELSE 0], k, FALSE)

\* mutant: the rejection is logged and not passed on
initializeCatch_Swallow(m, k) == Resume(m, k, TRUE)

\* adService.ts:69-72, the catch block of initialize
initializeCatch(m, k) == Resume(m, k, FALSE)

\* mutant: an earlier banner is removed before the new one is shown
showBanner_RemovesFirst(m, k) ==
    IF native
    THEN PluginCall(PluginCall(m, "removeBanner", "none", <<"catch.cleanup">>),
                    "showBanner", "none", <<"showBanner.plugin">> \o k)
    ELSE Resume(m, k, TRUE)

\* adService.ts:77-101
showBanner(m, k) ==
    IF native
    THEN PluginCall(m, "showBanner", "none", <<"showBanner.plugin">> \o k)
    ELSE Resume(m, k, TRUE)

\* adService.ts:103-115
removeBanner(m, k) ==
    IF native
    THEN PluginCall(m, "removeBanner", "none", <<"removeBanner.plugin">> \o k)
    ELSE Resume(m, k, TRUE)

\* mutant: the Loaded observer only logs
LoadedListener_LogsOnly(m) == m

\* adService.ts:51-54, the Loaded observer
LoadedListener(m) == [m EXCEPT !.isInterstitialLoaded = TRUE]

\* mutant: the observer resets the flag and prepares nothing
DismissedListener_NoPrepare(m) == [m EXCEPT !.isInterstitialLoaded = FALSE]

\* adService.ts:56-61, the Dismissed observer
DismissedListener(m) ==
    prepareInterstitial([m EXCEPT !.isInterstitialLoaded = FALSE], <<"catch.dismissed">>)

\* Navbar.tsx:175-202, initAds up to its first await
initAds(m) ==
    IF native THEN initialize(m, <<"initAds.initialize">>) ELSE m

\* mutant: the effect initializes the ads only while they are not initialized
AppEffect_InitOnce(m, splash) ==
    LET m1 == IF native THEN removeBanner(m, <<"catch.cleanup">>) ELSE m
    IN  IF ~splash /\ ~m.adsInitialized THEN initAds(m1) ELSE m1

\* Navbar.tsx:164-233: one re-run of the effect, its previous cleanup first
\* (227-232), then its body with the splash flag of this render.
AppEffect(m, splash) ==
    LET m1 == IF native THEN removeBanner(m, <<"catch.cleanup">>) ELSE m
    IN  IF ~splash THEN initAds(m1) ELSE m1

\* Navbar.tsx:180-182 and 191-192: setAdsInitialized(true), then showBanner
\* up to its await, then the re-render the state change asked for.
initAdsInitialized(m, k) ==
    LET m1 == showBanner([m EXCEPT !.adsInitialized = TRUE], k)
    IN  IF ~m.adsInitialized THEN AppEffect(m1, showSplash) ELSE m1

\* Navbar.tsx:184-198, the catch block of initAds
initAdsCatch(m) == SetTimeout(m, INIT_RETRY_DELAY, <<"timer.initAdsRetry">>)

\* a prepare promise rejected and frame k receives it
PrepareFailed(m, unit, k) ==
    [m EXCEPT !.ev.prepFail = unit,
              !.ev.prepSite = IF k = <<>> THEN "none" ELSE Head(k)]

\* a prepare that issued a load resolves; loaded is the flag of its surface
\* and frame k receives the resolution
PrepareResolved(m, unit, loaded, k) ==
    [m EXCEPT !.ev.prepOk = unit, !.ev.prepOkLoaded = loaded,
              !.ev.prepOkSite = IF k = <<>> THEN "none" ELSE Head(k)]

CallerFrames ==
    {"caller.initialize", "caller.showBanner", "caller.removeBanner",
     "caller.prepareInterstitial", "caller.showInterstitial",
     "caller.trackContentOpen", "caller.prepareAppOpenAd", "caller.showAppOpenAd"}

CatchFrames ==
    {"catch.dismissed", "catch.timer", "catch.track", "catch.cleanup",
     "catch.RouteTracker", "catch.visibility"}

\* The promise awaited by the frame Head(k) settled (ok: resolved, ~ok:
\* rejected), or the timer whose callback is Head(k) fired.
Resume(m, k, ok) ==
    IF k = <<>>
    THEN IF ok THEN m ELSE [m EXCEPT !.ev.uncaught = @ + 1]
    ELSE LET f == Head(k)
             r == Tail(k)
         IN CASE f \in CallerFrames ->
                   [m EXCEPT !.ev.res = IF ok THEN "ok" ELSE "fail", !.ev.resOf = f]
              [] f \in CatchFrames -> IF ok THEN m ELSE [m EXCEPT !.ev.caught = f]
              \* adService.ts:128-135
              [] f = "prepareInterstitial.load" ->
                   IF ok THEN Resume(PrepareResolved(m, "inter", m.isInterstitialLoaded, r),
                                     r, TRUE)
                   ELSE Resume(PrepareFailed([m EXCEPT !.isInterstitialLoaded = FALSE],
                                             "inter", r), r, FALSE)
              \* adService.ts:212-220
              [] f = "prepareAppOpenAd.load" ->
                   IF ok THEN Resume(PrepareResolved([m EXCEPT !.isAppOpenAdLoaded = TRUE],
                                                     "appopen", TRUE, r), r, TRUE)
                   ELSE Resume(PrepareFailed([m EXCEPT !.isAppOpenAdLoaded = FALSE],
                                             "appopen", r), r, FALSE)
              \* adService.ts:145-147
              [] f = "showInterstitial.prepare" ->
                   IF ok THEN SetTimeout(m, SETTLE_DELAY, <<"showInterstitial.settle">> \o r)
                   ELSE showInterstitialCatch(m, r)
              \* adService.ts:150-151
              [] f = "showInterstitial.settle" ->
                   displayInterstitial([m EXCEPT !.ev.settled = "inter"], r)
              [] f = "showInterstitial.display" ->
                   IF ok THEN showInterstitialShown(m, r) ELSE showInterstitialCatch(m, r)
              \* adService.ts:230-232
              [] f = "showAppOpenAd.prepare" ->
                   IF ok THEN SetTimeout(m, SETTLE_DELAY, <<"showAppOpenAd.settle">> \o r)
                   ELSE showAppOpenAdCatch(m, r)
              \* adService.ts:235-237
              [] f = "showAppOpenAd.settle" ->
                   displayAppOpenAd([m EXCEPT !.ev.settled = "appopen"], r)
              [] f = "showAppOpenAd.display" ->
                   IF ok THEN showAppOpenAdShown(m, r) ELSE showAppOpenAdCatch(m, r)
              \* adService.ts:184-191
              [] f = "trackContentOpen.show" ->
                   IF ok THEN Resume(m, r, TRUE) ELSE trackContentOpenCatch(m, r)
              \* adService.ts:48-72
              [] f = "initialize.sdk" ->
                   IF ok THEN initializeListeners(Note(m, <<"awaited", "AdMob.initialize">>), r)
                   ELSE initializeCatch(m, r)
              [] f = "initialize.prepareInterstitial" ->
                   IF ok THEN prepareAppOpenAd(Note(m, <<"awaited", "prepareInterstitial">>),
                                               <<"initialize.prepareAppOpenAd">> \o r)
                   ELSE initializeCatch(m, r)
              [] f = "initialize.prepareAppOpenAd" ->
                   IF ok THEN Resume(Note(m, <<"awaited", "prepareAppOpenAd">>), r, TRUE)
                   ELSE initializeCatch(m, r)
              \* adService.ts:92-98, 106-112
              [] f = "showBanner.plugin" -> Resume(m, r, ok)
              [] f = "removeBanner.plugin" -> Resume(m, r, ok)
              \* adService.ts:157, 167, 189
              [] f = "timer.prepareInterstitial" -> prepareInterstitial(m, <<"catch.timer">>)
              \* adService.ts:243, 253
              [] f = "timer.prepareAppOpenAd" -> prepareAppOpenAd(m, <<"catch.timer">>)
              \* Navbar.tsx:179-198
              [] f = "initAds.initialize" ->
                   IF ok THEN initAdsInitialized(m, <<"initAds.showBanner">>)
                   ELSE initAdsCatch([m EXCEPT !.ev.caught = f])
              [] f = "initAds.showBanner" -> IF ok THEN m ELSE initAdsCatch(m)
              \* Navbar.tsx:187-197
              [] f = "timer.initAdsRetry" -> initialize(m, <<"initAdsRetry.initialize">>)
              [] f = "initAdsRetry.initialize" ->
                   IF ok THEN initAdsInitialized(m, <<"initAdsRetry.showBanner">>)
                   ELSE [m EXCEPT !.ev.caught = f]
              [] f = "initAdsRetry.showBanner" -> m


\* Navbar.tsx:209-223; t is Date.now()
handleVisibilityChange(m, state, t) ==
    IF native /\ m.adsInitialized
    THEN IF state = "visible"
         THEN IF LongEnoughInBackground(t, m.lastActiveTime)
              THEN showAppOpenAd(m, <<"catch.visibility">>)
              ELSE m
         ELSE \* setLastActiveTime(Date.now()); a changed value re-runs the effect
              IF m.lastActiveTime # t
              THEN AppEffect([m EXCEPT !.lastActiveTime = t], showSplash)
              ELSE m
    ELSE m

\* Navbar.tsx:102-119, a route change to a content detail page
RouteTracker(m) == trackContentOpen(m, <<"catch.RouteTracker">>)

(***************************************************************************)
(* The state machine.                                                      *)
(***************************************************************************)
\* the tasks the plugin and the timers start; every other task is a step of
\* the host
PluginTasks == {"resolve", "reject", "Loaded", "Dismissed", "timer"}

Start(op) ==
    [contentOpenCount     |-> contentOpenCount,
     isInterstitialLoaded |-> isInterstitialLoaded,
     isAppOpenAdLoaded    |-> isAppOpenAdLoaded,
     loadedListeners      |-> loadedListeners,
     dismissedListeners   |-> dismissedListeners,
     pending              |-> pending,
     adsInitialized       |-> adsInitialized,
     lastActiveTime       |-> lastActiveTime,
     ev                   |-> [Ev0(op) EXCEPT !.preIL = isInterstitialLoaded,
                                              !.preCount = contentOpenCount,
                                              !.preAL = isAppOpenAdLoaded,
                                              !.preLL = loadedListeners,
                                              !.preDL = dismissedListeners,
                                              !.preAds = adsInitialized,
                                              !.preLast = lastActiveTime,
                                              !.preLoadsI = LoadsInFlight(pending, "inter"),
                                              !.requests = IF op \in PluginTasks
                                                           THEN ev.requests ELSE <<>>]]

Commit(m) ==
    /\ contentOpenCount' = m.contentOpenCount
    /\ isInterstitialLoaded' = m.isInterstitialLoaded
    /\ isAppOpenAdLoaded' = m.isAppOpenAdLoaded
    /\ loadedListeners' = m.loadedListeners
    /\ dismissedListeners' = m.dismissedListeners
    /\ pending' = m.pending
    /\ adsInitialized' = m.adsInitialized
    /\ lastActiveTime' = m.lastActiveTime
    /\ ev' = m.ev

Without(m, c) == [m EXCEPT !.pending = @ (-) One(c)]

\* the plugin call c settles in this task
Settled(m, c) ==
    [Without(m, c) EXCEPT
        !.ev.doneLoadsI = IF c.api = "prepareInterstitial" /\ c.unit = "inter"
                          THEN 1 ELSE 0]

Event(name) == Item("event", name, "none", 0, <<>>)

Emit(m, name, listeners) ==
    IF listeners > 0 THEN [m EXCEPT !.pending = @ (+) One(Event(name))] ELSE m

Init ==
    /\ native \in BOOLEAN
    /\ contentOpenCount = 0
    /\ isInterstitialLoaded = FALSE
    /\ isAppOpenAdLoaded = FALSE
    /\ loadedListeners = 0
    /\ dismissedListeners = 0
    /\ pending = EmptyBag
    /\ slot = "none"
    /\ showSplash = TRUE
    /\ adsInitialized = FALSE
    /\ lastActiveTime = 0
    /\ visibility = "visible"
    /\ now = 0
    /\ backgroundedAt = 0
    /\ adsAtBackground = FALSE
    /\ calls = 0
    /\ failures = 0
    /\ ev = Ev0("init")

hostVars == <<showSplash, visibility, now, backgroundedAt, adsAtBackground>>

histVars == <<calls, failures>>

\* a direct caller of the exported API
CallerStep ==
    /\ calls < MaxCalls
    /\ BagCardinality(pending) < MaxPending
    /\ calls' = calls + 1
    /\ UNCHANGED <<native, slot, hostVars, failures>>

CallInitialize ==
    CallerStep /\ Commit(initialize(Start("initialize"), <<"caller.initialize">>))

CallShowBanner ==
    CallerStep /\ Commit(showBanner(Start("showBanner"), <<"caller.showBanner">>))

CallRemoveBanner ==
    CallerStep /\ Commit(removeBanner(Start("removeBanner"), <<"caller.removeBanner">>))

CallPrepareInterstitial ==
    CallerStep /\ Commit(prepareInterstitial(Start("prepareInterstitial"),
                                             <<"caller.prepareInterstitial">>))

CallShowInterstitial ==
    CallerStep /\ Commit(showInterstitial(Start("showInterstitial"),
                                          <<"caller.showInterstitial">>))

CallTrackContentOpen ==
    CallerStep /\ Commit(trackContentOpen(Start("trackContentOpen"),
                                          <<"caller.trackContentOpen">>))

CallPrepareAppOpenAd ==
    CallerStep /\ Commit(prepareAppOpenAd(Start("prepareAppOpenAd"),
                                          <<"caller.prepareAppOpenAd">>))

CallShowAppOpenAd ==
    CallerStep /\ Commit(showAppOpenAd(Start("showAppOpenAd"), <<"caller.showAppOpenAd">>))

(***************************************************************************)
(* The ad-network plugin (@capacitor-community/admob, adService.ts:3).     *)
(* A call in flight resolves or rejects in a later task.  A load that      *)
(* succeeds puts its unit in the prepared slot and emits Loaded; a display *)
(* succeeds only when the slot holds an ad, empties it and is followed by  *)
(* Dismissed.  Loaded may reach the observers before or after the promise  *)
(* of its load resolves.                                                   *)
(***************************************************************************)
IsLoad(c) == c.t = "call" /\ c.api = "prepareInterstitial"
IsDisplay(c) == c.t = "call" /\ c.api = "showInterstitial"

\* a display call that succeeds puts the ad of the prepared slot on the screen
Displayed(m, c) ==
    IF IsDisplay(c)
    THEN [m EXCEPT !.ev.shown = slot, !.ev.shownBy = Head(c.k)]
    ELSE m

PluginResolve(c) ==
    /\ c.t = "call"
    /\ IsDisplay(c) => slot # "none"
    /\ slot' = IF IsLoad(c) THEN c.unit ELSE IF IsDisplay(c) THEN "none" ELSE slot
    /\ LET m0 == Displayed(Settled(Start("resolve"), c), c)
           m1 == IF IsLoad(c) /\ ~c.early THEN Emit(m0, "Loaded", loadedListeners)
                 ELSE IF IsDisplay(c) THEN Emit(m0, "Dismissed", dismissedListeners)
                 ELSE m0
       IN  Commit(Resume(m1, c.k, TRUE))
    /\ UNCHANGED <<native, hostVars, histVars>>

PluginReject(c, limit) ==
    /\ c.t = "call"
    /\ ~c.early
    /\ failures < limit
    /\ failures' = failures + 1
    /\ Commit(Resume([Settled(Start("reject"), c) EXCEPT !.ev.rejected = c.api],
                      c.k, FALSE))
    /\ UNCHANGED <<native, slot, hostVars, calls>>

\* Loaded reaches the observers while the promise of its load is still unresolved
LoadedEarly(c) ==
    /\ IsLoad(c)
    /\ ~c.early
    /\ loadedListeners > 0
    /\ slot' = c.unit
    /\ LET m0 == Without(Start("Loaded"), c)
           m1 == [m0 EXCEPT !.pending = @ (+) One([c EXCEPT !.early = TRUE])]
       IN  Commit(LoadedListener(m1))
    /\ UNCHANGED <<native, hostVars, histVars>>

RECURSIVE LoadedListeners(_, _)
\* the n observers of Loaded run one after the other
LoadedListeners(m, n) ==
    IF n = 0 THEN m ELSE LoadedListeners(LoadedListener(m), n - 1)

RECURSIVE DismissedListeners(_, _)
\* the n observers of Dismissed run one after the other
DismissedListeners(m, n) ==
    IF n = 0 THEN m ELSE DismissedListeners(DismissedListener(m), n - 1)

LoadedEvent ==
    /\ Event("Loaded") \in BagToSet(pending)
    /\ Commit(LoadedListeners(Without(Start("Loaded"), Event("Loaded")),
                               loadedListeners))
    /\ UNCHANGED <<native, slot, hostVars, histVars>>

DismissedEvent ==
    /\ Event("Dismissed") \in BagToSet(pending)
    /\ Commit(DismissedListeners(Without(Start("Dismissed"), Event("Dismissed")),
                                  dismissedListeners))
    /\ UNCHANGED <<native, slot, hostVars, histVars>>

TimerFire(c) ==
    /\ c.t = "timer"
    /\ Commit(Resume(Without(Start("timer"), c), c.k, TRUE))
    /\ UNCHANGED <<native, slot, hostVars, histVars>>

Plugin(limit) ==
    \/ \E c \in BagToSet(pending) : PluginResolve(c)
    \/ \E c \in BagToSet(pending) : PluginReject(c, limit)
    \/ \E c \in BagToSet(pending) : LoadedEarly(c)
    \/ LoadedEvent
    \/ DismissedEvent
    \/ \E c \in BagToSet(pending) : TimerFire(c)

Next ==
    \/ CallInitialize
    \/ CallShowBanner
    \/ CallRemoveBanner
    \/ CallPrepareInterstitial
    \/ CallShowInterstitial
    \/ CallTrackContentOpen
    \/ CallPrepareAppOpenAd
    \/ CallShowAppOpenAd
    \/ Plugin(MaxFailures)

Spec == Init /\ [][Next]_vars

(***************************************************************************)
(* A run of content opens: trackContentOpen() called up to MaxOpens times, *)
(* with initialize() calls among them so that the Loaded observer exists.  *)
(***************************************************************************)
Open ==
    /\ contentOpenCount < MaxOpens
    /\ BagCardinality(pending) < MaxPending
    /\ Commit(trackContentOpen(Start("trackContentOpen"), <<"caller.trackContentOpen">>))
    /\ UNCHANGED <<native, slot, hostVars, histVars>>

NextOpens ==
    \/ CallInitialize
    \/ Open
    \/ Plugin(MaxFailures)

SpecOpens == Init /\ [][NextOpens]_vars

(***************************************************************************)
(* The service with a plugin that rejects nothing.  Every plugin call in   *)
(* flight that can succeed, every event on its way and every armed timer   *)
(* is a task that is ready, and the event loop keeps running ready tasks   *)
(* while there are any; as each task leaves finitely many behind, each is  *)
(* run eventually.  The callers are under no obligation to call.           *)
(***************************************************************************)
ReadyTask ==
    \/ \E c \in BagToSet(pending) : PluginResolve(c)
    \/ LoadedEvent
    \/ DismissedEvent
    \/ \E c \in BagToSet(pending) : TimerFire(c)

PluginSucceeds ==
    \/ ReadyTask
    \/ \E c \in BagToSet(pending) : LoadedEarly(c)

NextLive ==
    \/ CallInitialize
    \/ CallShowInterstitial
    \/ CallTrackContentOpen
    \/ CallShowAppOpenAd
    \/ PluginSucceeds

SpecLive ==
    /\ Init
    /\ [][NextLive]_vars
    /\ WF_vars(ReadyTask)

(***************************************************************************)
(* Callers that do not wait for one another: a call is made whatever is    *)
(* still in flight, as two route changes in quick succession, or a         *)
(* foreground transition during a navigation, make them.                   *)
(***************************************************************************)
OverlapStep ==
    /\ calls < MaxOverlapCalls
    /\ calls' = calls + 1
    /\ UNCHANGED <<native, slot, hostVars, failures>>

OverlapInitialize ==
    OverlapStep /\ Commit(initialize(Start("initialize"), <<"caller.initialize">>))

OverlapPrepareInterstitial ==
    OverlapStep /\ Commit(prepareInterstitial(Start("prepareInterstitial"),
                                              <<"caller.prepareInterstitial">>))

OverlapShowInterstitial ==
    OverlapStep /\ Commit(showInterstitial(Start("showInterstitial"),
                                           <<"caller.showInterstitial">>))

OverlapTrackContentOpen ==
    OverlapStep /\ Commit(trackContentOpen(Start("trackContentOpen"),
                                           <<"caller.trackContentOpen">>))

OverlapShowAppOpenAd ==
    OverlapStep /\ Commit(showAppOpenAd(Start("showAppOpenAd"), <<"caller.showAppOpenAd">>))

NextOverlap ==
    \/ OverlapInitialize
    \/ OverlapPrepareInterstitial
    \/ OverlapShowInterstitial
    \/ OverlapTrackContentOpen
    \/ OverlapShowAppOpenAd
    \/ Plugin(MaxHostFailures)

SpecOverlap == Init /\ [][NextOverlap]_vars


(***************************************************************************)
(* The host shell (App, Navbar.tsx:121-303) driving the service.  Init is  *)
(* the mounted App with the splash screen up: the effect of lines 164-233  *)
(* has run once, skipped initAds (204) and registered the visibility       *)
(* handler.  The handler reads adsInitialized and lastActiveTime of the    *)
(* render that registered it; both are dependencies of the effect (233),   *)
(* so a change of either re-registers it, and a state change and the       *)
(* re-run it causes are one step here.                                     *)
(***************************************************************************)
Elapsed == {10000, 30000, 31000}

\* Host events are seconds apart and plugin traffic takes milliseconds: the
\* host's events are taken when no plugin call, timer or event is outstanding.
HostIdle == pending = EmptyBag

HostStep ==
    /\ calls < MaxHostSteps
    /\ HostIdle
    /\ calls' = calls + 1
    /\ UNCHANGED failures

\* Navbar.tsx:130-133; showSplash is a dependency of the effect
HideSplash ==
    /\ HostStep
    /\ showSplash
    /\ showSplash' = FALSE
    /\ Commit(AppEffect(Start("hideSplash"), FALSE))
    /\ UNCHANGED <<native, slot, visibility, now, backgroundedAt, adsAtBackground>>

\* a route change to poem-details or book-details; RouteTracker is rendered
\* once the splash screen is gone (251-276)
Navigate ==
    /\ HostStep
    /\ ~showSplash
    /\ Commit(RouteTracker(Start("navigate")))
    /\ UNCHANGED <<native, slot, hostVars>>

\* The clock is read only by the visibility handler (212, 220): d is the time
\* that passed since the previous visibility event (since the mount, for the
\* first one).
Clock(d) ==
    /\ now + d <= MaxTime
    /\ now' = now + d

\* visibilitychange to hidden, d ms after the previous visibility event
Background(d) ==
    /\ HostStep
    /\ Clock(d)
    /\ visibility = "visible"
    /\ visibility' = "hidden"
    /\ backgroundedAt' = now'
    /\ adsAtBackground' = adsInitialized
    /\ Commit(handleVisibilityChange(Start("background"), "hidden", now'))
    /\ UNCHANGED <<native, slot, showSplash>>

\* visibilitychange to visible, d ms after the app went to the background
Foreground(d) ==
    /\ HostStep
    /\ Clock(d)
    /\ visibility = "hidden"
    /\ visibility' = "visible"
    /\ Commit(handleVisibilityChange(Start("foreground"), "visible", now'))
    /\ UNCHANGED <<native, slot, showSplash, backgroundedAt, adsAtBackground>>

NextHost ==
    \/ HideSplash
    \/ Navigate
    \/ \E d \in Elapsed : Background(d)
    \/ \E d \in Elapsed : Foreground(d)
    \/ Plugin(MaxHostFailures)

SpecHost == Init /\ [][NextHost]_vars


(***************************************************************************)
(* Properties.                                                             *)
(***************************************************************************)
PublicOps ==
    {"initialize", "showBanner", "removeBanner", "prepareInterstitial",
     "showInterstitial", "trackContentOpen", "prepareAppOpenAd", "showAppOpenAd"}

\* the armed timers whose callback is frame f
Armed(f) == {c \in BagToSet(pending) : c.t = "timer" /\ c.k = <<f>>}

\* C1: a trackContentOpen() call invokes showInterstitial() once when the
\* count it has just reached is a multiple of 2 and not at all otherwise,
\* whatever earlier loads and shows did.
C1_ShowOnEverySecondOpen ==
    ev.op = "trackContentOpen" =>
        ev.showI = (IF contentOpenCount % 2 = 0 THEN 1 ELSE 0)

\* C1 witness: the second open, made after a load has failed, invokes the show.
C1_Witness ==
    /\ ev.op = "trackContentOpen"
    /\ contentOpenCount = 2
    /\ failures > 0
    /\ ev.showI = 1

\* C2: on a supported platform every prepareInterstitial() invocation made
\* while the flag is set issues no load request and every one made while it
\* is clear issues exactly one; for a direct call this is decided by the
\* flag at the time of the call.
C2_PrepareLoadsOnlyWhenUnloaded ==
    native =>
        /\ ev.loadsI = ev.prepIUnl
        /\ ev.op = "prepareInterstitial" =>
              /\ ev.prepI = 1
              /\ ev.loadsI = (IF ev.preIL THEN 0 ELSE 1)

\* C2 witness: a direct prepareInterstitial() while the interstitial is loaded.
C2_Witness ==
    /\ native
    /\ ev.op = "prepareInterstitial"
    /\ ev.preIL
    /\ ev.loadsI = 0
    /\ ev.res = "ok"

\* C3: when a showInterstitial() promise settles on a supported platform the
\* flag is clear and the task that settled it has armed exactly one timer
\* for prepareInterstitial.
C3_OnePrepareScheduledPerShow ==
    (native /\ ev.showIRes # "none") =>
        /\ ~isInterstitialLoaded
        /\ ev.timersI = 1

\* C4: on an unsupported platform no plugin call is ever issued, no timer is
\* ever armed, nothing is left pending and every public operation hands its
\* caller a resolved promise in the task of the call.
C4_UnsupportedDoesNothing ==
    ~native =>
        /\ pending = EmptyBag
        /\ ev.pluginCalls = 0
        /\ ev.timers = 0
        /\ ev.op \in PublicOps => ev.res = "ok"

\* C4 witness: the second trackContentOpen(), which goes through
\* showInterstitial(), on an unsupported platform.
C4_Witness ==
    /\ ~native
    /\ ev.op = "trackContentOpen"
    /\ ev.showI = 1
    /\ ev.res = "ok"

C6_DismissedPrepares ==
    /\ ev.op = "Dismissed" =>
          /\ ~isInterstitialLoaded
          /\ ev.prepI >= 1
          /\ ev.prepI = dismissedListeners
          /\ ev.loadsI = ev.prepI
    /\ ev.prepSite = "catch.dismissed" =>
          /\ ev.uncaught = 0
          /\ ev.res = "none"

\* C6 witness: the prepare started by the Dismissed observer has rejected.
C6_Witness ==
    /\ ev.prepFail = "inter"
    /\ ev.prepSite = "catch.dismissed"

C8_ShowOnlyAfterLongBackground ==
    (ev.op = "foreground" /\ ev.showA > 0) => now - backgroundedAt > 30000

\* the frames the claim of C9 names as call sites of a prepare
PrepareSites ==
    {"catch.dismissed", "catch.track", "catch.timer",
     "showInterstitial.prepare", "showAppOpenAd.prepare"}

\* C9: the task in which a prepare rejects arms a timer that invokes the same
\* prepare again, wherever the prepare was called from.
C9_FailedPrepareIsRetried ==
    (native /\ ev.prepSite \in PrepareSites) =>
        /\ ev.prepFail = "inter" => ev.timersI >= 1
        /\ ev.prepFail = "appopen" => ev.timersA >= 1

\* C10: retries never stop: when the prepare invoked by a retry timer rejects,
\* exactly one further timer for that prepare is armed.
C10_RetryOfRetry ==
    (ev.prepFail # "none" /\ ev.prepSite = "catch.timer") =>
        /\ ev.timers = 1
        /\ Armed(IF ev.prepFail = "inter" THEN "timer.prepareInterstitial"
                 ELSE "timer.prepareAppOpenAd") # {}

\* C11: the promise trackContentOpen() hands its caller is never rejected,
\* whatever the plugin's load and display calls did, on multiples of the
\* frequency and on other counts alike.
C11_TrackNeverRejects ==
    ev.resOf = "caller.trackContentOpen" => ev.res = "ok"

\* C11 witness: the show awaited by trackContentOpen() has rejected and
\* trackContentOpen() has resolved in the same task.
C11_Witness ==
    /\ ev.op = "reject"
    /\ ev.showIRes = "fail"
    /\ ev.showIVia = "track"
    /\ ev.resOf = "caller.trackContentOpen"
    /\ ev.res = "ok"

\* C12: the counter is 0 at the start; every task leaves it as it found it,
\* except a trackContentOpen() call, which adds exactly one, on every
\* platform and whatever became of the ads before.
C12_CounterCountsOpens ==
    /\ ev.op = "init" => contentOpenCount = 0
    /\ contentOpenCount =
          ev.preCount + (IF ev.op = "trackContentOpen" THEN 1 ELSE 0)

\* C12 witness: the third open on a supported platform, after a plugin call
\* has rejected.
C12_Witness ==
    /\ native
    /\ failures > 0
    /\ ev.op = "trackContentOpen"
    /\ ev.preCount = 2
    /\ contentOpenCount = 3

\* C13: every transition to the background records its time as the time the
\* next foreground transition compares with.
C13_BackgroundAlwaysRecorded ==
    ev.op = "background" => lastActiveTime = backgroundedAt

\* C14: when a prepare that issued a load request resolves, the flag of its
\* surface is set; when it rejects, the flag is clear and a direct caller
\* gets the rejection.
C14_PrepareSettlesLoadState ==
    /\ ev.prepOk # "none" => ev.prepOkLoaded
    /\ ev.prepFail = "inter" => ~isInterstitialLoaded
    /\ ev.prepFail = "appopen" => ~isAppOpenAdLoaded
    /\ (ev.prepFail # "none" /\ ev.prepSite \in CallerFrames) => ev.res = "fail"

\* C15: every display call is issued while the flag of its surface is set.
C15_DisplayOnlyWhenLoaded ==
    /\ ev.dispIUnl = 0
    /\ ev.dispAUnl = 0

\* the pending plugin calls and timers whose continuation starts with frame f
InFlight(f) == {c \in BagToSet(pending) : c.k # <<>> /\ Head(c.k) = f}

\* C16: on a supported platform a show entered with the flag set issues the
\* display call at once, with no prepare and no timer; a show entered with
\* the flag clear invokes its prepare and issues no display call until the
\* prepare has resolved and the 1000 ms timer armed on that resolution has
\* fired; when the prepare rejects, no display call is issued, the show
\* rejects, the flag is clear and a timer for the prepare is armed.
C16_ShowPreparesThenSettles ==
    native =>
        /\ ev.op = "showInterstitial" =>
              IF ev.preIL
              THEN ev.dispI = 1 /\ ev.prepI = 0 /\ ev.timers = 0
              ELSE ev.dispI = 0 /\ ev.prepI = 1 /\ ev.loadsI = 1
        /\ ev.op = "showAppOpenAd" =>
              IF ev.preAL
              THEN ev.dispA = 1 /\ ev.prepA = 0 /\ ev.timers = 0
              ELSE ev.dispA = 0 /\ ev.prepA = 1 /\ ev.loadsA = 1
        /\ ev.dispI > 0 =>
              \/ ev.op = "timer" /\ ev.settled = "inter"
              \/ ev.showI = 1 /\ ev.preIL /\ ev.prepI = 0 /\ ev.timers = 0
        /\ ev.dispA > 0 =>
              \/ ev.op = "timer" /\ ev.settled = "appopen"
              \/ ev.showA = 1 /\ ev.preAL /\ ev.prepA = 0 /\ ev.timers = 0
        /\ ev.prepOkSite = "showInterstitial.prepare" =>
              /\ ev.dispI = 0
              /\ ev.timers = 1
              /\ \E c \in InFlight("showInterstitial.settle") :
                    c.t = "timer" /\ c.delay = 1000
        /\ ev.prepOkSite = "showAppOpenAd.prepare" =>
              /\ ev.dispA = 0
              /\ ev.timers = 1
              /\ \E c \in InFlight("showAppOpenAd.settle") :
                    c.t = "timer" /\ c.delay = 1000
        /\ ev.prepSite = "showInterstitial.prepare" =>
              /\ ev.dispI = 0
              /\ ev.showIRes = "fail"
              /\ ~isInterstitialLoaded
              /\ ev.timersI >= 1
              /\ ev.showIVia = "caller" =>
                    ev.res = "fail" /\ ev.resOf = "caller.showInterstitial"
        /\ ev.prepSite = "showAppOpenAd.prepare" =>
              /\ ev.dispA = 0
              /\ ev.showARes = "fail"
              /\ ~isAppOpenAdLoaded
              /\ ev.timersA >= 1
              /\ ev.res = "fail" /\ ev.resOf = "caller.showAppOpenAd"

\* C16 witness: a direct showInterstitial() entered with the flag clear, whose
\* prepare has rejected.
C16_Witness ==
    /\ ev.prepSite = "showInterstitial.prepare"
    /\ ev.showIVia = "caller"
    /\ ev.res = "fail"
    /\ ev.timersI = 1
    /\ ev.dispI = 0

\* the load state the flags encode (adService.ts:28-29)
InterstitialLoadState == IF isInterstitialLoaded THEN "Loaded" ELSE "Unloaded"

AppOpenLoadState == IF isAppOpenAdLoaded THEN "Loaded" ELSE "Unloaded"

\* C17: while a display call is in flight the load state of its surface is
\* neither Loaded nor Unloaded, and when a show settles the state is Unloaded.
C17_ShowingWhileDisplayed ==
    /\ InFlight("showInterstitial.display") # {} =>
          InterstitialLoadState \notin {"Loaded", "Unloaded"}
    /\ InFlight("showAppOpenAd.display") # {} =>
          AppOpenLoadState \notin {"Loaded", "Unloaded"}
    /\ (native /\ ev.showIRes # "none") => InterstitialLoadState = "Unloaded"
    /\ (native /\ ev.showARes # "none") => AppOpenLoadState = "Unloaded"

\* C18: a trackContentOpen() call that reaches an odd count invokes no show
\* and issues no display call, invokes prepareInterstitial() exactly when the
\* flag is clear, and has resolved while the load that prepare issued is
\* still in flight; a call that reaches an even count invokes the show.  In
\* four opens from the start: prepare-only on 1 and 3, show on 2 and 4.
C18_OddOpensOnlyPrepare ==
    ev.op = "trackContentOpen" =>
        /\ contentOpenCount % 2 # 0 =>
              /\ ev.res = "ok"
              /\ ev.showI = 0
              /\ ev.dispI = 0
              /\ ev.prepI = (IF ev.preIL THEN 0 ELSE 1)
              /\ (native /\ ~ev.preIL) =>
                    \E c \in InFlight("prepareInterstitial.load") :
                        c.k = <<"prepareInterstitial.load", "catch.track">>
        /\ contentOpenCount % 2 = 0 =>
              /\ ev.showI = 1
              /\ ev.prepI = (IF native /\ ~ev.preIL THEN 1 ELSE 0)

\* C18 witness: the third open, on a supported platform with the flag clear,
\* has resolved with its prepare in flight.
C18_Witness ==
    /\ native
    /\ ev.op = "trackContentOpen"
    /\ contentOpenCount = 3
    /\ ~ev.preIL
    /\ ev.prepI = 1
    /\ ev.res = "ok"
    /\ InFlight("prepareInterstitial.load") # {}

\* the trail of the task in which initialize's await of prepareInterstitial
\* ends, given the app-open flag at the start of the task
AfterPrepareInterstitial(appOpenLoaded) ==
    <<<<"awaited", "prepareInterstitial">>>> \o
    (IF appOpenLoaded
     THEN <<<<"awaited", "prepareAppOpenAd">>>>
     ELSE <<<<"AdMob", "prepareInterstitial", "appopen">>>>)

\* the trail of the task in which initialize's await of the SDK ends
AfterSdk(interstitialLoaded, appOpenLoaded) ==
    <<<<"awaited", "AdMob.initialize">>,
      <<"addListener", "Loaded">>, <<"addListener", "Dismissed">>>> \o
    (IF interstitialLoaded
     THEN AfterPrepareInterstitial(appOpenLoaded)
     ELSE <<<<"AdMob", "prepareInterstitial", "inter">>>>)

\* C19: on a supported platform initialize() proceeds in this order: when the
\* SDK call has resolved it registers the Loaded and the Dismissed observer
\* and invokes prepareInterstitial(); when that has resolved it invokes
\* prepareAppOpenAd(); when that has resolved it resolves.  A successful
\* initialize() that is the first call has issued one load request for the
\* interstitial unit and then one for the app-open unit, and no other.
C19_InitializeOrder ==
    native =>
        /\ (ev.trail # <<>> /\ Head(ev.trail) = <<"awaited", "AdMob.initialize">>) =>
              /\ ev.trail = AfterSdk(ev.preIL, ev.preAL)
              /\ loadedListeners = ev.preLL + 1
              /\ dismissedListeners = ev.preDL + 1
        /\ (ev.trail # <<>> /\ Head(ev.trail) = <<"awaited", "prepareInterstitial">>) =>
              ev.trail = AfterPrepareInterstitial(ev.preAL)
        /\ (ev.resOf = "caller.initialize" /\ ev.res = "ok") =>
              /\ ev.trail # <<>>
              /\ ev.trail[Len(ev.trail)] = <<"awaited", "prepareAppOpenAd">>
              /\ loadedListeners >= 1
              /\ dismissedListeners >= 1
              /\ calls = 1 => ev.requests = <<"inter", "appopen">>

\* C19 witness: initialize(), the first call on a supported platform, has
\* resolved after both loads.
C19_Witness ==
    /\ native
    /\ calls = 1
    /\ ev.resOf = "caller.initialize"
    /\ ev.res = "ok"
    /\ ev.requests = <<"inter", "appopen">>
    /\ isAppOpenAdLoaded

\* C20: when the SDK initialization call rejects, initialize() rejects to its
\* caller in that task, and the task registers no observer, issues no plugin
\* call, arms no timer and leaves both flags and the counter as they were.
C20_FailedSdkInitialization ==
    ev.rejected = "initialize" =>
        /\ ev.res = "fail"
        /\ ev.resOf = "caller.initialize"
        /\ loadedListeners = ev.preLL
        /\ dismissedListeners = ev.preDL
        /\ ev.pluginCalls = 0
        /\ ev.timers = 0
        /\ isInterstitialLoaded = ev.preIL
        /\ isAppOpenAdLoaded = ev.preAL
        /\ contentOpenCount = ev.preCount

\* C20 witness: the SDK call of a second initialize() rejects, after a first
\* one registered the observers and loaded both ads.
C20_Witness ==
    /\ ev.rejected = "initialize"
    /\ ev.res = "fail"
    /\ ev.preLL = 1
    /\ ev.preAL
    /\ isAppOpenAdLoaded

\* how often x occurs in the sequence t
RECURSIVE Occurrences(_, _)
Occurrences(t, x) ==
    IF t = <<>> THEN 0
    ELSE (IF Head(t) = x THEN 1 ELSE 0) + Occurrences(Tail(t), x)

\* C21: nothing guards initialize() against repetition: every task adds one
\* Loaded and one Dismissed observer for each initialize() that gets past its
\* SDK call in it and removes none, so after k such calls there are k of
\* each; one Dismissed event then invokes prepareInterstitial() k times, each
\* issuing a load request.
C21_ObserversAccumulate ==
    /\ loadedListeners =
          ev.preLL + Occurrences(ev.trail, <<"awaited", "AdMob.initialize">>)
    /\ dismissedListeners =
          ev.preDL + Occurrences(ev.trail, <<"awaited", "AdMob.initialize">>)
    /\ loadedListeners = dismissedListeners
    /\ ev.op = "Dismissed" =>
          /\ ev.prepI = ev.preDL
          /\ ev.loadsI = ev.preDL

\* C21 witness: one Dismissed event after two initialize() calls has invoked
\* prepareInterstitial() twice.
C21_Witness ==
    /\ ev.op = "Dismissed"
    /\ loadedListeners = 2
    /\ dismissedListeners = 2
    /\ ev.prepI = 2
    /\ ev.loadsI = 2

\* C22: the guard of prepareInterstitial() looks at the flag alone: every
\* invocation made while the flag is clear adds a load request to those
\* already in flight, so two requests that both find the flag clear put two
\* load requests for the interstitial in flight at once.
C22_PrepareIgnoresLoadsInFlight ==
    native =>
        LoadsInFlight(pending, "inter") =
            (ev.preLoadsI - ev.doneLoadsI) + ev.prepIUnl

\* C22 witness: a trackContentOpen() made while the load of an earlier
\* prepare is in flight has found the flag clear and issued a second load.
C22_Witness ==
    /\ native
    /\ ev.op = "trackContentOpen"
    /\ ~ev.preIL
    /\ ev.preLoadsI = 1
    /\ ev.loadsI = 1
    /\ LoadsInFlight(pending, "inter") = 2
    /\ ~isInterstitialLoaded

\* the task left the two load flags and the counter as it found them
FlagsAndCounterUnchanged ==
    /\ isInterstitialLoaded = ev.preIL
    /\ isAppOpenAdLoaded = ev.preAL
    /\ contentOpenCount = ev.preCount

\* C23: on a supported platform a showBanner() or removeBanner() call issues
\* exactly one plugin call, its own, and arms no timer; its promise settles
\* in the task in which that plugin call settles, rejected exactly when the
\* plugin call was rejected, and that task issues no plugin call and arms no
\* timer; neither task changes the load flags or the counter.
C23_BannerCallsPassThrough ==
    native =>
        /\ ev.op = "showBanner" =>
              /\ ev.trail = <<<<"AdMob", "showBanner", "none">>>>
              /\ ev.timers = 0
              /\ ev.res = "none"
              /\ FlagsAndCounterUnchanged
        /\ ev.op = "removeBanner" =>
              /\ ev.trail = <<<<"AdMob", "removeBanner", "none">>>>
              /\ ev.timers = 0
              /\ ev.res = "none"
              /\ FlagsAndCounterUnchanged
        /\ ev.resOf \in {"caller.showBanner", "caller.removeBanner"} =>
              /\ ev.op \in {"resolve", "reject"}
              /\ ev.res = "fail" <=> ev.op = "reject"
              /\ ev.op = "reject" =>
                    ev.rejected = (IF ev.resOf = "caller.showBanner"
                                   THEN "showBanner" ELSE "removeBanner")
              /\ ev.pluginCalls = 0
              /\ ev.timers = 0
              /\ FlagsAndCounterUnchanged

\* C23 witness: the plugin has rejected a showBanner() made while both ads
\* were loaded, and the caller got the rejection.
C23_Witness ==
    /\ native
    /\ ev.resOf = "caller.showBanner"
    /\ ev.res = "fail"
    /\ ev.rejected = "showBanner"
    /\ isInterstitialLoaded
    /\ isAppOpenAdLoaded

\* C24: the ad a display call of showInterstitial() puts on the screen was
\* loaded with the interstitial unit and the one of showAppOpenAd() with the
\* app-open unit, and a flag is set only while the plugin's prepared slot
\* holds an ad of its surface.
C24_SurfaceIsolation ==
    /\ ev.shownBy = "showInterstitial.display" => ev.shown = "inter"
    /\ ev.shownBy = "showAppOpenAd.display" => ev.shown = "appopen"
    /\ isInterstitialLoaded => slot = "inter"
    /\ isAppOpenAdLoaded => slot = "appopen"

\* the AdMob.showInterstitial calls in flight
DisplaysInFlight ==
    BagCardinality([c \in {d \in BagToSet(pending) : IsDisplay(d)}
                    |-> CopiesIn(c, pending)])

\* C25: at most one display call is in flight at any time.
C25_OneDisplayInFlight == DisplaysInFlight <= 1

\* the frames of initAds and of its retry that await initialize()
InitAdsAwaits == {"initAds.initialize", "initAdsRetry.initialize"}

\* C26: when the interstitial preload awaited by initialize() rejects, the
\* frame of the host that awaits initialize() receives the rejection in that
\* task, prepareAppOpenAd() is not invoked, and the observers the call has
\* registered stay registered; the initialize() of the host's retry, once
\* past its SDK call, registers one more of each.
C26_FailedPreloadKeepsObservers ==
    /\ ev.prepSite = "initialize.prepareInterstitial" =>
          /\ ev.prepFail = "inter"
          /\ ev.caught \in InitAdsAwaits
          /\ ev.caught = "initAds.initialize" => Armed("timer.initAdsRetry") # {}
          /\ ev.prepA = 0
          /\ ev.loadsA = 0
          /\ loadedListeners = ev.preLL
          /\ dismissedListeners = ev.preDL
          /\ loadedListeners >= 1
          /\ dismissedListeners >= 1
    /\ (/\ ev.trail # <<>>
        /\ Head(ev.trail) = <<"awaited", "AdMob.initialize">>
        /\ \E c \in BagToSet(pending) :
              \E i \in 1..Len(c.k) : c.k[i] = "initAdsRetry.initialize") =>
          /\ loadedListeners = ev.preLL + 1
          /\ dismissedListeners = ev.preDL + 1

\* C26 witness: the interstitial preload of the host's first initialize() has
\* rejected; the observers are registered and the retry is armed.
C26_Witness ==
    /\ ev.prepSite = "initialize.prepareInterstitial"
    /\ ev.caught = "initAds.initialize"
    /\ loadedListeners = 1
    /\ dismissedListeners = 1
    /\ Armed("timer.initAdsRetry") # {}

\* what a re-run of the effect issues: the cleanup's removeBanner(), then
\* the SDK call of initialize()
EffectReRun ==
    <<<<"AdMob", "removeBanner", "none">>, <<"AdMob", "initialize", "none">>>>

\* C27: on a supported platform the task that sets adsInitialized ends with a
\* re-run of the effect, removeBanner() and then initialize(); so does every
\* background transition that records its time; and every task in which an
\* initialize() of the host resolves goes on to invoke showBanner().
C27_EffectReRunsInitialize ==
    native =>
        /\ (adsInitialized /\ ~ev.preAds) =>
              /\ Len(ev.trail) >= 2
              /\ SubSeq(ev.trail, Len(ev.trail) - 1, Len(ev.trail)) = EffectReRun
        /\ (ev.op = "background" /\ lastActiveTime # ev.preLast) =>
              ev.trail = EffectReRun
        /\ \A i \in 1..Len(ev.trail) :
              ev.trail[i] = <<"awaited", "prepareAppOpenAd">> =>
                  /\ i < Len(ev.trail)
                  /\ ev.trail[i + 1] = <<"AdMob", "showBanner", "none">>

\* C27 witness: a background transition has recorded its time and re-run the
\* effect after two initialize() calls had already registered observers.
C27_Witness ==
    /\ native
    /\ ev.op = "background"
    /\ lastActiveTime = now
    /\ lastActiveTime # ev.preLast
    /\ ev.trail = EffectReRun
    /\ loadedListeners >= 2

\* a showInterstitial() has just resolved, or a Dismissed event has just been
\* delivered, on a supported platform with the observers registered
RefillDue ==
    /\ native
    /\ loadedListeners > 0
    /\ ev.showIRes = "ok" \/ ev.op = "Dismissed"

\* C28: with a plugin that rejects nothing and delivers its events, and with
\* timers that fire, every resolution of showInterstitial() and every
\* Dismissed event is followed by a state in which the interstitial flag is
\* set.
C28_RefillLiveness == RefillDue ~> isInterstitialLoaded

\* C28 witness: a showInterstitial() has resolved after initialize(); the flag
\* is clear and the refill timer is armed.
C28_Witness ==
    /\ RefillDue
    /\ ev.showIRes = "ok"
    /\ ~isInterstitialLoaded
    /\ isAppOpenAdLoaded
    /\ Armed("timer.prepareInterstitial") # {}

====
